---- MODULE Spec2Model ----
(***************************************************************************)
(* Model of src/src/components/ROICalculator.tsx: the pure return model    *)
(* calculateROI, the pointer-driven Slider component and the host          *)
(* component ROICalculator that owns the input record.                     *)
(*                                                                         *)
(* JavaScript numbers are modelled as extended rationals: a record         *)
(* [n, d] in lowest terms with d > 0 is the rational n/d, and d = 0 marks  *)
(* the non-finite values (1/0 = Infinity, -1/0 = -Infinity, 0/0 = NaN).    *)
(* Arithmetic is exact: binary floating point rounding and the sign of     *)
(* zero are not modelled.                                                  *)
(***************************************************************************)
EXTENDS Integers, Sequences, FiniteSets, TLC

VARIABLES inputs, isDragging, capture, event, emitted, gv, roi

vars == <<inputs, isDragging, capture, event, emitted, gv, roi>>

hostVars == <<inputs, isDragging, capture, event, emitted>>

-----------------------------------------------------------------------------
(* JavaScript number arithmetic                                            *)

Sgn(x) == IF x > 0 THEN 1 ELSE IF x < 0 THEN -1 ELSE 0

Abs(x) == IF x < 0 THEN -x ELSE x

RECURSIVE GCD(_, _)
GCD(a, b) == IF b = 0 THEN a ELSE GCD(b, a % b)

\* n/d in lowest terms, d >= 0; d = 0 keeps only the sign of n.
Norm(n, d) ==
  IF d = 0 THEN [n |-> Sgn(n), d |-> 0]
  ELSE LET g == GCD(Abs(n), Abs(d))
       IN  [n |-> (Sgn(d) * n) \div g, d |-> Abs(d) \div g]

Num(i) == [n |-> i, d |-> 1]

Frac(n, d) == Norm(n, d)

Zero == Num(0)

One == Num(1)

NaN == [n |-> 0, d |-> 0]

Infinity == [n |-> 1, d |-> 0]

NegInfinity == [n |-> -1, d |-> 0]

IsRational(a) == DOMAIN a = {"n", "d"}

IsNaN(a) == IsRational(a) /\ a.d = 0 /\ a.n = 0

IsFinite(a) == IsRational(a) => a.d > 0

Neg(a) == [n |-> -(a.n), d |-> a.d]

\* a + b on extended rationals (Infinity + -Infinity = NaN).
RatAdd(a, b) ==
  IF a.d = 0 /\ b.d = 0
    THEN (IF a.n = b.n THEN a ELSE NaN)
    ELSE Norm(a.n * b.d + b.n * a.d, a.d * b.d)

\* a * b on extended rationals (0 * Infinity = NaN).
RatMul(a, b) == Norm(a.n * b.n, a.d * b.d)

\* 1 / b; 1/0 = Infinity, 1/Infinity = 0.
Recip(b) == IF b.n < 0 THEN [n |-> -(b.d), d |-> -(b.n)] ELSE [n |-> b.d, d |-> b.n]

\* A value m * base^(1/root) + c that is not rational is carried exactly
\* as the record [base, root, m, c] (base > 0, m > 0 rational).
IsSurd(a) == DOMAIN a = {"base", "root", "m", "c"}

Add(a, b) ==
  IF IsSurd(a) THEN [a EXCEPT !.c = RatAdd(a.c, b)] ELSE RatAdd(a, b)

Sub(a, b) == Add(a, Neg(b))

Mul(a, b) ==
  IF IsSurd(a) THEN [a EXCEPT !.m = RatMul(a.m, b), !.c = RatMul(a.c, b)]
  ELSE RatMul(a, b)

Div(a, b) == RatMul(a, Recip(b))

\* a < b, false when either is NaN.
Lt(a, b) == RatAdd(b, Neg(a)).n > 0

Gt(a, b) == Lt(b, a)

NumEq(a, b) == ~IsNaN(a) /\ ~IsNaN(b) /\ a = b

Le(a, b) == Lt(a, b) \/ NumEq(a, b)

MathMax(a, b) == IF IsNaN(a) \/ IsNaN(b) THEN NaN ELSE IF Lt(a, b) THEN b ELSE a

MathMin(a, b) == IF IsNaN(a) \/ IsNaN(b) THEN NaN ELSE IF Lt(b, a) THEN b ELSE a

\* Math.round: the nearest integer, halves towards +Infinity.
MathRound(a) == IF a.d = 0 THEN a ELSE Num((2 * a.n + a.d) \div (2 * a.d))

RECURSIVE IntPow(_, _)
IntPow(a, k) == IF k = 0 THEN One ELSE RatMul(a, IntPow(a, k - 1))

\* Math.pow(b, e) for a finite rational exponent e.
MathPow(b, e) ==
  IF IsNaN(b) THEN NaN
  ELSE IF e.d = 1 THEN (IF e.n >= 0 THEN IntPow(b, e.n) ELSE Recip(IntPow(b, -(e.n))))
  ELSE IF b = One THEN One
  ELSE IF b.d = 0 THEN (IF e.n > 0 THEN Infinity ELSE Zero)
  ELSE IF b.n < 0 THEN NaN
  ELSE IF b.n = 0 THEN (IF e.n > 0 THEN Zero ELSE Infinity)
  ELSE [base |-> (IF e.n > 0 THEN IntPow(b, e.n) ELSE Recip(IntPow(b, -(e.n)))),
        root |-> e.d, m |-> One, c |-> Zero]

\* The sign of a number: -1, 0 or 1 (0 for NaN).  For m * base^(1/root) + c
\* with c < 0 the sign is that of base - (-c/m)^root.
SignOf(a) ==
  IF IsSurd(a)
    THEN (IF a.c.n >= 0 THEN 1
          ELSE LET t == IntPow(RatMul(Neg(a.c), Recip(a.m)), a.root)
               IN  Sgn(RatAdd(a.base, Neg(t)).n))
    ELSE Sgn(a.n)

IsZero(a) == ~IsNaN(a) /\ IsFinite(a) /\ SignOf(a) = 0

-----------------------------------------------------------------------------
(* Constants and defaults                                                  *)

DEFAULTS ==
  [ preMbaSalary       |-> Num(80000),
    postMbaSalary      |-> Num(140000),
    signingBonus       |-> Num(30000),
    tuitionAndExpenses |-> Num(131303),
    loanAmount         |-> Num(59891),
    interestRate       |-> Frac(59, 10),
    loanTerm           |-> Num(10),
    programLength      |-> Num(22),
    investmentReturn   |-> Frac(55, 10),
    preMbaWageGrowth   |-> Frac(41, 10),
    postMbaWageGrowth  |-> Frac(42, 10),
    inflation          |-> Frac(26, 10) ]

Config(lo, hi, st) == [min |-> lo, max |-> hi, step |-> st]

SLIDER_CONFIG ==
  [ preMbaSalary       |-> Config(Num(20000), Num(300000), Num(1000)),
    postMbaSalary      |-> Config(Num(30000), Num(500000), Num(1000)),
    signingBonus       |-> Config(Num(0), Num(100000), Num(500)),
    tuitionAndExpenses |-> Config(Num(25000), Num(300000), Num(1000)),
    loanAmount         |-> Config(Num(0), Num(200000), Num(1000)),
    interestRate       |-> Config(Num(0), Num(15), Frac(1, 10)),
    loanTerm           |-> Config(Num(1), Num(15), Num(1)),
    programLength      |-> Config(Num(10), Num(36), Num(1)) ]

sliderOrder ==
  << "preMbaSalary", "postMbaSalary", "signingBonus", "tuitionAndExpenses",
     "loanAmount", "interestRate", "loanTerm", "programLength" >>

-----------------------------------------------------------------------------
(* Slider: value-from-pointer                                              *)

\* trackRef.current and the rectangle getBoundingClientRect() returns for it.
NoTrack == [present |-> FALSE, left |-> Zero, width |-> Zero]

Rect(l, w) == [present |-> TRUE, left |-> Num(l), width |-> Num(w)]

getValueFromEvent(min, max, step, value, track, clientX) ==
  IF ~track.present THEN value
  ELSE LET ratio == MathMax(Zero, MathMin(One, Div(Sub(clientX, track.left), track.width)))
           raw   == Add(min, Mul(ratio, Sub(max, min)))
       IN  Mul(MathRound(Div(raw, step)), step)

-----------------------------------------------------------------------------
(* ROI calculation                                                         *)

Hundred == Num(100)

Twelve == Num(12)

realPreGrowth(in) == Div(Sub(in.preMbaWageGrowth, in.inflation), Hundred)

realPostGrowth(in) == Div(Sub(in.postMbaWageGrowth, in.inflation), Hundred)

realRate(in) == MathMax(Div(Sub(in.interestRate, in.inflation), Hundred), Zero)

\* The nominal investment return is the literal 5.5, not inputs.investmentReturn.
realInvestReturn(in) == Div(Sub(Frac(55, 10), in.inflation), Hundred)

forgoneIncome(in) == Mul(Div(in.preMbaSalary, Twelve), in.programLength)

\* Total interest of a fixed-rate amortization at the real rate.
amortizedInterest(in) ==
  LET monthlyRate    == Div(realRate(in), Twelve)
      numPayments    == Mul(in.loanTerm, Twelve)
      growth         == MathPow(Add(One, monthlyRate), numPayments)
      monthlyPayment == Div(Mul(in.loanAmount, Mul(monthlyRate, growth)), Sub(growth, One))
  IN  Sub(Mul(monthlyPayment, numPayments), in.loanAmount)

\* Plausible bug: the guard does not test the real rate.
loanInterest_NoRateGuard(in) ==
  IF Gt(in.loanAmount, Zero) /\ Gt(in.loanTerm, Zero)
    THEN amortizedInterest(in)
    ELSE Zero

loanInterest(in) ==
  IF Gt(in.loanAmount, Zero) /\ Gt(realRate(in), Zero) /\ Gt(in.loanTerm, Zero)
    THEN amortizedInterest(in)
    ELSE Zero

totalCost(in) == Add(Add(in.tuitionAndExpenses, forgoneIncome(in)), loanInterest(in))

\* The salary advantage accumulated over years 1..year.
RECURSIVE salaryEdgeUpTo(_, _)
salaryEdgeUpTo(in, year) ==
  IF year = 0 THEN Zero
  ELSE LET postSalary == Mul(in.postMbaSalary,
                             MathPow(Add(One, realPostGrowth(in)), Num(year - 1)))
           preSalary  == Mul(in.preMbaSalary,
                             MathPow(Add(One, realPreGrowth(in)),
                                     Add(Num(year - 1), Div(in.programLength, Twelve))))
       IN  Add(salaryEdgeUpTo(in, year - 1), Sub(postSalary, preSalary))

salaryEdge(in) == salaryEdgeUpTo(in, 10)

bonusCompounded(in) == Mul(in.signingBonus, MathPow(Add(One, realInvestReturn(in)), Num(10)))

totalReturn(in) == Add(salaryEdge(in), bonusCompounded(in))

grossRatio(in) == Div(totalReturn(in), totalCost(in))

\* Plausible bug: the root is taken whatever the sign of the ratio.
annualizedROI_NoGuard(in) ==
  Mul(Sub(MathPow(grossRatio(in), Frac(1, 10)), One), Hundred)

annualizedROI(in) ==
  IF Gt(grossRatio(in), Zero)
    THEN Mul(Sub(MathPow(grossRatio(in), Frac(1, 10)), One), Hundred)
    ELSE Zero

calculateROI(in) ==
  [ annualizedROI   |-> annualizedROI(in),
    netROI          |-> Sub(totalReturn(in), totalCost(in)),
    totalCost       |-> totalCost(in),
    tuitionExpenses |-> in.tuitionAndExpenses,
    loanInterest    |-> loanInterest(in),
    forgoneIncome   |-> forgoneIncome(in),
    totalReturn     |-> totalReturn(in),
    salaryEdge      |-> salaryEdge(in),
    bonusCompounded |-> bonusCompounded(in) ]

-----------------------------------------------------------------------------
(* Bounds of the model                                                     *)

\* The first NumSliders sliders of sliderOrder are rendered.
NumSliders == 2

\* Width in pixels of a laid-out track; pointers range one pixel beyond it.
TrackWidth == 2

Sliders == { sliderOrder[i] : i \in 1..NumSliders }

\* The pointer ids of two pointers that can be active at the same time
\* (the mouse and a touch contact, or two touch contacts).
Pointers == {1, 2}

None == "none"

\* The rectangle of a mounted, laid-out track.  The degenerate geometries
\* (no element, an empty rectangle) are inputs of SpecValue below.
HostTracks == { Rect(1, TrackWidth) }

PointerXs == { Num(x) : x \in 0..(TrackWidth + 2) }

-----------------------------------------------------------------------------
(* Host component ROICalculator and its Slider instances                   *)

NoEvent == [kind |-> "none", slider |-> None, value |-> Zero, clientX |-> Zero, track |-> NoTrack]

Event(k, s, x, t) == [kind |-> k, slider |-> s, value |-> inputs[s], clientX |-> x, track |-> t]

\* Plausible bug: the new record is built from the defaults, not from prev.
update_FromDefaults(key, value) == [DEFAULTS EXCEPT ![key] = value]

\* update(key)(value): setInputs(prev => ({ ...prev, [key]: value })).
update(key, value) == [inputs EXCEPT ![key] = value]

\* The onChange prop of the slider rendering field s.
onChange(s, v) ==
  /\ emitted' = << [key |-> s, value |-> v] >>
  /\ inputs' = update(s, v)

noChange ==
  /\ emitted' = << >>
  /\ inputs' = inputs

\* getValueFromEvent of the slider instance rendering field s.
valueFromEvent(s, track, clientX) ==
  getValueFromEvent(SLIDER_CONFIG[s].min, SLIDER_CONFIG[s].max, SLIDER_CONFIG[s].step,
                    inputs[s], track, clientX)

\* Plausible bug: the press only starts the drag and emits nothing.
handlePointerDown_NoEmit(s, p, clientX, track) ==
  /\ isDragging' = [isDragging EXCEPT ![s] = TRUE]
  /\ capture' = [capture EXCEPT ![p] = s]
  /\ noChange

handlePointerDown(s, p, clientX, track) ==
  /\ isDragging' = [isDragging EXCEPT ![s] = TRUE]
  /\ capture' = [capture EXCEPT ![p] = s]
  /\ onChange(s, valueFromEvent(s, track, clientX))

\* Plausible bug: the isDragging guard is missing.
handlePointerMove_NoGuard(s, clientX, track) ==
  /\ isDragging' = isDragging
  /\ onChange(s, valueFromEvent(s, track, clientX))

\* Plausible change: a move emits only a value that differs from the current one.
handlePointerMove_IfChanged(s, clientX, track) ==
  /\ isDragging' = isDragging
  /\ IF ~isDragging[s] \/ valueFromEvent(s, track, clientX) = inputs[s] THEN noChange
     ELSE onChange(s, valueFromEvent(s, track, clientX))

handlePointerMove(s, clientX, track) ==
  /\ isDragging' = isDragging
  /\ IF ~isDragging[s] THEN noChange
     ELSE onChange(s, valueFromEvent(s, track, clientX))

handlePointerUp(s) ==
  /\ isDragging' = [isDragging EXCEPT ![s] = FALSE]
  /\ noChange

resetAll ==
  /\ inputs' = DEFAULTS
  /\ emitted' = << >>

\* The browser dispatches an event of pointer p to the track that captured p,
\* and to the track under the pointer when p is not captured.
DeliveredTo(p, s) == capture[p] \in {None, s}

PointerDown ==
  \E p \in Pointers, s \in Sliders, x \in PointerXs, t \in HostTracks :
    /\ capture[p] = None
    /\ handlePointerDown(s, p, x, t)
    /\ event' = Event("down", s, x, t)
    /\ UNCHANGED <<gv, roi>>

PointerMove ==
  \E p \in Pointers, s \in Sliders, x \in PointerXs, t \in HostTracks :
    /\ DeliveredTo(p, s)
    /\ handlePointerMove(s, x, t)
    /\ event' = Event("move", s, x, t)
    /\ UNCHANGED <<capture, gv, roi>>

\* The capture of p is released implicitly after pointerup and pointercancel.
PointerUp ==
  \E p \in Pointers, s \in Sliders :
    /\ DeliveredTo(p, s)
    /\ handlePointerUp(s)
    /\ capture' = [capture EXCEPT ![p] = None]
    /\ event' = Event("up", s, Zero, NoTrack)
    /\ UNCHANGED <<gv, roi>>

PointerCancel ==
  \E p \in Pointers, s \in Sliders :
    /\ DeliveredTo(p, s)
    /\ handlePointerUp(s)
    /\ capture' = [capture EXCEPT ![p] = None]
    /\ event' = Event("cancel", s, Zero, NoTrack)
    /\ UNCHANGED <<gv, roi>>

ResetClick ==
  /\ resetAll
  /\ event' = [NoEvent EXCEPT !.kind = "reset"]
  /\ UNCHANGED <<isDragging, capture, gv, roi>>

GvIdle == [st |-> "idle"]

RoiIdle == [st |-> "idle"]

HostInit ==
  /\ inputs = DEFAULTS
  /\ isDragging = [s \in Sliders |-> FALSE]
  /\ capture = [p \in Pointers |-> None]
  /\ event = NoEvent
  /\ emitted = << >>

Init == HostInit /\ gv = GvIdle /\ roi = RoiIdle

Next == PointerDown \/ PointerMove \/ PointerUp \/ PointerCancel \/ ResetClick

Spec == Init /\ [][Next]_vars

-----------------------------------------------------------------------------
(* getValueFromEvent as a pure function of its inputs                      *)

\* Largest bound of the small slider configurations.
GridMax == 5

\* Configurations: those of SLIDER_CONFIG and every small one with min < max.
GvConfigs ==
  { SLIDER_CONFIG[sliderOrder[i]] : i \in 1..Len(sliderOrder) } \cup
  { Config(Num(lo), Num(hi), Num(st)) : lo \in 0..GridMax, hi \in 1..GridMax, st \in 1..GridMax }

\* No track element, an empty rectangle, and laid-out rectangles.
GvTracks == { NoTrack } \cup { Rect(1, w) : w \in 0..TrackWidth }

\* Pointer positions on, next to and far from the track.
GvPointerXs == PointerXs \cup { Num(-1000), Num(1000) }

GvArgs ==
  { [min |-> c.min, max |-> c.max, step |-> c.step, value |-> v, track |-> t, clientX |-> x] :
      c \in { k \in GvConfigs : Lt(k.min, k.max) }, v \in {"min", "max"},
      t \in GvTracks, x \in GvPointerXs }

\* The current value handed to the slider: one end of its range.
GvValue(a) == IF a.value = "min" THEN a.min ELSE a.max

InitValue ==
  /\ HostInit
  /\ roi = RoiIdle
  /\ gv \in { [st |-> "call", args |-> a, out |-> Zero] : a \in GvArgs }

CallGetValue ==
  /\ gv.st = "call"
  /\ gv' = [gv EXCEPT !.st = "done",
                      !.out = getValueFromEvent(gv.args.min, gv.args.max, gv.args.step,
                                                GvValue(gv.args), gv.args.track,
                                                gv.args.clientX)]
  /\ UNCHANGED <<hostVars, roi>>

NextValue == CallGetValue

SpecValue == InitValue /\ [][NextValue]_vars

-----------------------------------------------------------------------------
(* calculateROI as a pure function of its input record                     *)

\* Input records whose powers are exactly computable: the inflation rate
\* equals the fixed nominal investment return, real growth is 0 or 100%,
\* the monthly real loan rate is 0 or 100%, terms are whole years.
RoiInflation == Frac(55, 10)

RoiInputs ==
  { [ preMbaSalary       |-> Num(pre),
      postMbaSalary      |-> Num(post),
      signingBonus       |-> Num(bonus),
      tuitionAndExpenses |-> Num(tuition),
      loanAmount         |-> Num(loan),
      interestRate       |-> rate,
      loanTerm           |-> Num(term),
      programLength      |-> Num(months),
      investmentReturn   |-> Frac(55, 10),
      preMbaWageGrowth   |-> Add(RoiInflation, Num(g1)),
      postMbaWageGrowth  |-> Add(RoiInflation, Num(g2)),
      inflation          |-> RoiInflation ] :
      pre \in {0, 1200}, post \in {0, 1200, 2400}, bonus \in {0, 1024},
      tuition \in {0, 1000}, loan \in {0, 4095},
      rate \in {Zero, RoiInflation, Add(RoiInflation, Num(1200))},
      term \in {0, 1}, months \in {0, 12}, g1 \in {0, 100}, g2 \in {0, 100} }

InitROI ==
  /\ HostInit
  /\ gv = GvIdle
  /\ roi \in { [st |-> "call", in |-> i, out |-> << >>] : i \in RoiInputs }

CallCalculateROI ==
  /\ roi.st = "call"
  /\ roi' = [roi EXCEPT !.st = "done", !.out = calculateROI(roi.in)]
  /\ UNCHANGED <<hostVars, gv>>

NextROI == CallCalculateROI

SpecROI == InitROI /\ [][NextROI]_vars

-----------------------------------------------------------------------------
(* Properties                                                              *)

TrackAvailable(t) == t.present /\ Gt(t.width, Zero)

\* v = min + k * step for an integer k >= 0.
OnGrid(v, min, step) ==
  LET k == Div(Sub(v, min), step) IN k.d = 1 /\ k.n >= 0

\* C1: for every configuration, laid-out track and pointer position, the
\* value getValueFromEvent returns lies in [min, max] and is min + k * step
\* for an integer k >= 0.
C1_ValueInRangeOnGrid ==
  (gv.st = "done" /\ TrackAvailable(gv.args.track)) =>
    /\ Le(gv.args.min, gv.out)
    /\ Le(gv.out, gv.args.max)
    /\ OnGrid(gv.out, gv.args.min, gv.args.step)

\* C6: when the track geometry is unavailable (no element, or an empty
\* rectangle), getValueFromEvent returns the current value unchanged.
C6_UnavailableKeepsValue ==
  (gv.st = "done" /\ ~TrackAvailable(gv.args.track)) => gv.out = GvValue(gv.args)

NonNegative(in) == \A f \in DOMAIN in : ~Lt(in[f], Zero)

AllFinite(out) == \A f \in DOMAIN out : ~IsNaN(out[f]) /\ IsFinite(out[f])

\* C2: for non-negative inputs with total cost 0, the annualized return is
\* exactly 0 and every field of the result is a finite number.
C2_ZeroCostGivesZero ==
  (roi.st = "done" /\ NonNegative(roi.in) /\ IsZero(roi.out.totalCost)) =>
    (IsZero(roi.out.annualizedROI) /\ AllFinite(roi.out))

\* C3 as stated: with total cost > 0, a total return at or below the total
\* cost gives an annualized return of 0.
C3_ReturnBelowCostGivesZero ==
  (roi.st = "done" /\ Gt(roi.out.totalCost, Zero)
     /\ Le(roi.out.totalReturn, roi.out.totalCost)) =>
    IsZero(roi.out.annualizedROI)

\* C3 amended: with total cost > 0, the annualized return is 0 when the
\* total return is at or below 0 or equals the total cost, and it is
\* negative when the total return lies strictly between 0 and the total cost.
C3_NonPositiveReturnGivesZero ==
  (roi.st = "done" /\ Gt(roi.out.totalCost, Zero)) =>
    /\ Le(roi.out.totalReturn, Zero) => IsZero(roi.out.annualizedROI)
    /\ NumEq(roi.out.totalReturn, roi.out.totalCost) => IsZero(roi.out.annualizedROI)
    /\ (Gt(roi.out.totalReturn, Zero) /\ Lt(roi.out.totalReturn, roi.out.totalCost))
         => SignOf(roi.out.annualizedROI) = -1

C3_Witness ==
  /\ roi.st = "done"
  /\ Gt(roi.out.totalCost, Zero)
  /\ Lt(roi.out.totalReturn, Zero)
  /\ IsZero(roi.out.annualizedROI)

\* C8: the loan interest is exactly 0 when the loan amount is 0, the term is
\* 0 or the nominal rate is at or below inflation; it is never the result of
\* a division by zero, and it is non-zero only when all three are positive.
C8_LoanInterestGuarded ==
  roi.st = "done" =>
    /\ (IsZero(roi.in.loanAmount) \/ IsZero(roi.in.loanTerm)
          \/ Le(roi.in.interestRate, roi.in.inflation))
         => roi.out.loanInterest = Zero
    /\ ~IsNaN(roi.out.loanInterest) /\ IsFinite(roi.out.loanInterest)
    /\ roi.out.loanInterest # Zero =>
         (Gt(roi.in.loanAmount, Zero) /\ Gt(roi.in.loanTerm, Zero)
            /\ Gt(roi.in.interestRate, roi.in.inflation))

C8_Witness ==
  /\ roi.st = "done"
  /\ Gt(roi.in.loanAmount, Zero)
  /\ Gt(roi.in.loanTerm, Zero)
  /\ Lt(roi.in.interestRate, roi.in.inflation)
  /\ roi.out.loanInterest = Zero

\* C4: every control starts idle, becomes dragging only by a pointer-down on
\* it, is idle after every pointer-up or pointer-cancel on it, and a
\* pointer-move on an idle control calls no change callback.
C4_IdleMoveEmitsNothing ==
  /\ \A s \in Sliders : ~isDragging[s]
  /\ [][ /\ (event'.kind = "move" /\ ~isDragging[event'.slider])
              => (emitted' = << >> /\ inputs' = inputs)
         /\ \A s \in Sliders :
              (isDragging'[s] /\ ~isDragging[s])
                => (event'.kind = "down" /\ event'.slider = s)
         /\ event'.kind \in {"up", "cancel"} => ~isDragging'[event'.slider]
       ]_vars

\* A move reached a control that was dragged earlier and is idle again.
C4_Witness ==
  /\ event.kind = "move"
  /\ ~isDragging[event.slider]
  /\ emitted = << >>
  /\ inputs[event.slider] # DEFAULTS[event.slider]

\* C5: no control receives a pointer-down or pointer-move while another
\* control holds a pointer capture, and at most one control is dragging.
C5_ExclusiveGesture ==
  /\ Cardinality({ s \in Sliders : isDragging[s] }) <= 1
  /\ event.kind \in {"down", "move"} =>
       \A p \in Pointers : capture[p] \in {None, event.slider}

\* C7: a pointer-down on a control makes it dragging and calls the change
\* callback exactly once, with the value computed from the pointer position.
C7_DownEmitsOnce ==
  [][ event'.kind = "down" =>
        LET s == event'.slider
        IN  /\ isDragging'[s]
            /\ emitted' = << [key |-> s,
                              value |-> valueFromEvent(s, event'.track, event'.clientX)] >>
    ]_vars

\* A press on an idle track moved the value, with no move event involved.
C7_Witness ==
  /\ event.kind = "down"
  /\ isDragging[event.slider]
  /\ Len(emitted) = 1
  /\ emitted[1].value # event.value

\* C9 as stated: a pointer-move on a dragging control calls the change
\* callback if and only if the recomputed value differs from the current one.
C9_MoveEmitsOnlyIfChanged ==
  [][ (event'.kind = "move" /\ isDragging[event'.slider]) =>
        LET s == event'.slider
        IN  emitted' # << >> <=> valueFromEvent(s, event'.track, event'.clientX) # inputs[s]
    ]_vars

\* C9 amended: a pointer-move on a dragging control calls the change callback
\* exactly once with the recomputed value, whether or not it differs from the
\* current value.
C9_MoveAlwaysEmits ==
  [][ (event'.kind = "move" /\ isDragging[event'.slider]) =>
        LET s == event'.slider
            v == valueFromEvent(s, event'.track, event'.clientX)
        IN  /\ emitted' = << [key |-> s, value |-> v] >>
            /\ inputs' = [inputs EXCEPT ![s] = v]
    ]_vars

\* A move on a dragging control emitted the value the control already had.
C9_Witness ==
  /\ event.kind = "move"
  /\ isDragging[event.slider]
  /\ emitted = << [key |-> event.slider, value |-> event.value] >>

NoSliderFields == DOMAIN DEFAULTS \ { sliderOrder[i] : i \in 1..Len(sliderOrder) }

\* C10: an emitted value replaces exactly the field of its control, a reset
\* restores every default, nothing else changes the record, and the fields
\* without a slider always hold their defaults.
C10_OnlyOwnFieldReplaced ==
  /\ [](\A f \in NoSliderFields : inputs[f] = DEFAULTS[f])
  /\ [][ /\ emitted' # << >>
              => inputs' = [inputs EXCEPT ![emitted'[1].key] = emitted'[1].value]
         /\ event'.kind = "reset" => inputs' = DEFAULTS
         /\ (emitted' = << >> /\ event'.kind # "reset") => inputs' = inputs
       ]_vars

\* A control emitted while another field already held a non-default value.
C10_Witness ==
  /\ emitted # << >>
  /\ inputs[emitted[1].key] = emitted[1].value
  /\ \E f \in Sliders : f # emitted[1].key /\ inputs[f] # DEFAULTS[f]

====
